---- MODULE Spec2Model ----
(***************************************************************************)
(* State-machine model of app.py: the session/auth gate, the process-wide  *)
(* usage counters, the generation handlers, the static artifact folder and *)
(* the age-based cleanup sweep.                                            *)
(***************************************************************************)
EXTENDS Integers, Sequences, FiniteSets, TLC

\* ------------------------------------------------------------------ bounds
MaxReq == 2
MaxAuthReq == 4
MaxChats == 5
MaxWorkers == 2
MaxServe == 2
MaxServeSweeps == 1
MaxThreads == 2
MaxIncr == 4
MaxSweeps == 2
NFiles == 2
MaxWrites == 1
MaxTicks == 1
Now0 == 2000

\* ------------------------------------------------------- program constants
RETENTION == 1800
HISTORY_CAP == 6

\* Python's None, and a key that a dict or a form does not hold.
None == "<None>"

ADMIN_USER == "Admin"
ADMIN_PASS == "admin123"

StatKeys ==
    {"text_gen", "audio_gen", "transcribe", "pdf_gen", "chat_msgs",
     "code_review", "quiz_gen", "file_conv", "compression", "vid_audio"}

\* ------------------------------------------------------------------- state
VARIABLES
    API_KEY,        \* GROQ_API_KEY of the process: None or a key
    session,        \* the session cookie the browser holds: keys is_admin / chat_history
    global_stats,   \* the usage counters
    static,         \* STATIC_FOLDER: the set of directory entries
    fresh,          \* number of uuid4 names drawn so far (names never collide)
    req,            \* the request answered last
    resp,           \* the response sent for req
    llm_messages,   \* the messages handed to the provider by the chat call of req
    llm_calls,      \* provider calls made while serving req
    staged,         \* the transient staged uploads of req
    budget,         \* requests still to arrive in this run
    spawned,        \* cleanup threads started by before_request_cleanup
    served,         \* history: requests that arrived, per endpoint
    answered,       \* history: responses sent
    authed,         \* history: last successful login not followed by a logout
    transcript,     \* history: every turn of the successful chats since the last clear
    wpc,            \* per request thread: the blocking call it is in, or idle
    wreq,           \* per request thread: the request it serves
    wsession,       \* per request thread: the session loaded from the request's cookie
    wnames,         \* per request thread: the file names the view has drawn
    tpc, tfield, tmp, incs, started,   \* threads running increment_stat concurrently
    clock,          \* time.time()
    spc, snow, slisting, sidx, smtime, \* cleanup threads
    initial,        \* history: the directory when the sweeps began
    deleted,        \* history: names removed by a sweep
    writes, ticks

workerVars == <<wpc, wreq, wsession, wnames>>
reqVars == <<API_KEY, session, global_stats, static, fresh, req, resp, llm_messages,
             llm_calls, staged, budget, spawned, served, answered, authed, transcript,
             workerVars>>
incVars == <<tpc, tfield, tmp, incs, started>>
sweepVars == <<clock, spc, snow, slisting, sidx, smtime, initial, deleted, writes, ticks>>
vars == <<reqVars, incVars, sweepVars>>

\* ----------------------------------------------------------------- helpers
Last(s, n) == SubSeq(s, Len(s) - n + 1, Len(s))

RECURSIVE SumOver(_, _)
SumOver(f, keys) ==
    IF keys = {} THEN 0
    ELSE LET k == CHOOSE x \in keys : TRUE IN f[k] + SumOver(f, keys \ {k})

\* dict.get(key, default), dict.pop(key, None), dict[key] = value
dict_get(d, key, default) == IF key \in DOMAIN d THEN d[key] ELSE default
dict_pop(d, key) == [k \in DOMAIN d \ {key} |-> d[k]]
dict_set(d, key, value) == [k \in DOMAIN d \cup {key} |-> IF k = key THEN value ELSE d[k]]

\* Python truthiness of an optional string: None and "" are falsy.
Truthy(v) == v /= None /\ v /= ""

\* ------------------------------------------------------------ usage counter
increment_stat_twice(stats, field) ==
    IF field \in DOMAIN stats THEN [stats EXCEPT ![field] = @ + 2] ELSE stats

increment_stat(stats, field) ==
    IF field \in DOMAIN stats THEN [stats EXCEPT ![field] = @ + 1] ELSE stats


\* ------------------------------------------------------------ input domains
RAISE == "<raise>"
\* data = request.json: a JSON object, or a JSON value without .get
LoginBodies == {"object", "array", "null"}
Usernames == {ADMIN_USER, "guest", None}
Passwords == {ADMIN_PASS, "letmein", None}
Messages == {"", "m1", "m2"}
Replies == {"r1", "r2"}
Completions == {"", "generated text"}
Samples == {<<0, 0>>, <<25, 0>>, <<25, 50>>}
\* request.form.get('format', 'PNG'): absent, or as the client wrote it
Formats == {None, "jpg", "JPEG", "gif", "xyz"}

Endpoints ==
    {"index", "health", "static", "login", "logout", "check_auth", "get_stats",
     "download_report", "chat", "clear_chat", "generate_minutes", "generate_email",
     "review_code", "translate", "generate_quiz", "make_ppt", "text_to_audio",
     "audio_to_text", "text_to_pdf", "video_to_audio", "convert_file",
     "compress_image"}

NoRequest == [endpoint |-> "none"]

\* ------------------------------------------------------- responses, folder
jsonify(body, status) == [body |-> body, status |-> status, kind |-> "json"]
text_response(body, status) == [body |-> body, status |-> status, kind |-> "plain"]
\* An exception that leaves the view function: Flask answers 500 itself.
unhandled(exc) == [body |-> exc, status |-> 500, kind |-> "unhandled"]

exists(dir, name) == name \in DOMAIN dir
write_file(dir, name, now) ==
    dict_set(dir, name, [kind |-> "file", mtime |-> now, locked |-> FALSE])
remove_file(dir, name) == dict_pop(dir, name)
\* f"{prefix}_{uuid.uuid4().hex[:8]}.{ext}": the n-th name drawn
uuid_name(prefix, n, ext) == <<prefix, n, ext>>
\* a write through a handle opened earlier: a name removed since stays removed
write_open(dir, name, now) ==
    IF exists(dir, name) THEN write_file(dir, name, now) ELSE dir

\* ------------------------------------------------------------ LLM wrapper
get_groq_response(key, outcome) ==
    IF ~Truthy(key) THEN None
    ELSE IF outcome = RAISE THEN None
    ELSE outcome

\* create() is reached only with a key
groq_calls(key) == IF Truthy(key) THEN 1 ELSE 0

\* ------------------------------------------------------- request plumbing
\* before_request_cleanup: one cleanup thread per request that is not a static one
before_request_cleanup(endpoint) ==
    spawned' = IF endpoint /= "static" THEN spawned + 1 ELSE spawned

\* request r reaches the idle request thread w
Arrive(w, r) ==
    /\ wpc[w] = "idle"
    /\ budget > 0
    /\ budget' = budget - 1
    /\ before_request_cleanup(r.endpoint)
    /\ served' = [served EXCEPT ![r.endpoint] = @ + 1]
    /\ UNCHANGED <<API_KEY, incVars, sweepVars>>

\* the response to r leaves the server
Answer(r, rsp, calls, stg) ==
    /\ req' = r
    /\ resp' = rsp
    /\ llm_calls' = calls
    /\ staged' = stg
    /\ answered' = answered + 1

\* a view that runs from arrival to its return without a blocking call between
\* two changes of state
Serve(w, r, s2, g2, dir2, fresh2, rsp, calls, stg) ==
    /\ Arrive(w, r)
    /\ session' = s2
    /\ global_stats' = g2
    /\ static' = dir2
    /\ fresh' = fresh2
    /\ Answer(r, rsp, calls, stg)
    /\ UNCHANGED workerVars

Plain(w, r, rsp) ==
    /\ Serve(w, r, session, global_stats, static, fresh, rsp, 0, {})
    /\ UNCHANGED <<llm_messages, authed, transcript>>

\* a view that runs from arrival into a blocking call (pc): what it did so far is
\* visible to the other threads; snap and names are its locals
Block(w, r, g2, dir2, fresh2, pc, snap, names) ==
    /\ Arrive(w, r)
    /\ global_stats' = g2
    /\ static' = dir2
    /\ fresh' = fresh2
    /\ wpc' = [wpc EXCEPT ![w] = pc]
    /\ wreq' = [wreq EXCEPT ![w] = r]
    /\ wsession' = [wsession EXCEPT ![w] = snap]
    /\ wnames' = [wnames EXCEPT ![w] = names]
    /\ UNCHANGED <<session, req, resp, llm_messages, llm_calls, staged, answered,
                   authed, transcript>>

\* the blocking call pc of thread w is over: the rest of the view, to its return
Resume(w, pc, s2, dir2, fresh2, rsp, calls, stg) ==
    /\ wpc[w] = pc
    /\ session' = s2
    /\ static' = dir2
    /\ fresh' = fresh2
    /\ Answer(wreq[w], rsp, calls, stg)
    /\ wpc' = [wpc EXCEPT ![w] = "idle"]
    /\ wreq' = [wreq EXCEPT ![w] = NoRequest]
    /\ wsession' = [wsession EXCEPT ![w] = <<>>]
    /\ wnames' = [wnames EXCEPT ![w] = <<>>]
    /\ UNCHANGED <<API_KEY, global_stats, budget, spawned, served, incVars, sweepVars>>

\* ------------------------------------------------------------- core routes
index(w) ==
    Plain(w, [endpoint |-> "index"], text_response("index.html", 200))

health(w) ==
    Plain(w, [endpoint |-> "health"], text_response("OK", 200))

static_request(w) ==
    \E name \in DOMAIN static \cup {uuid_name("missing", 0, "bin")} :
        Plain(w, [endpoint |-> "static", asset |-> name],
              IF exists(static, name)
              THEN text_response(name, 200)
              ELSE text_response("Not Found", 404))

\* --------------------------------------------------------------------- auth
CredentialsMatchUserOnly(username, password) ==
    username = ADMIN_USER

CredentialsMatch(username, password) ==
    username = ADMIN_USER /\ password = ADMIN_PASS

is_admin(s) == dict_get(s, "is_admin", FALSE)

login(w) ==
    \E data \in LoginBodies, username \in Usernames, password \in Passwords :
        IF data /= "object"
        \* data.get raises AttributeError, which nothing catches
        THEN Plain(w, [endpoint |-> "login", data |-> data], unhandled("AttributeError"))
        ELSE LET r == [endpoint |-> "login", username |-> username,
                       password |-> password, data |-> data]
             IN IF CredentialsMatch(username, password)
                THEN /\ Serve(w, r, dict_set(session, "is_admin", TRUE), global_stats,
                              static, fresh, jsonify([success |-> TRUE], 200), 0, {})
                     /\ authed' = TRUE
                     /\ UNCHANGED <<llm_messages, transcript>>
                ELSE Plain(w, r, jsonify([success |-> FALSE,
                                          error |-> "Invalid Credentials"], 401))

logout_session(s) == dict_pop(s, "is_admin")

logout(w) ==
    /\ Serve(w, [endpoint |-> "logout"], logout_session(session), global_stats, static,
             fresh, jsonify([success |-> TRUE], 200), 0, {})
    /\ authed' = FALSE
    /\ UNCHANGED <<llm_messages, transcript>>

check_auth(w) ==
    Plain(w, [endpoint |-> "check_auth"], jsonify([is_admin |-> is_admin(session)], 200))

\* ----------------------------------------------------------- stats, report
\* get_stats up to psutil.cpu_percent(interval=0.1), which an admin session waits
\* in; any other session is answered at once
get_stats(w) ==
    LET r == [endpoint |-> "get_stats"]
    IN IF is_admin(session)
       THEN Block(w, r, global_stats, static, fresh, "stats_sample", <<>>, <<>>)
       ELSE Plain(w, r, jsonify([cpu |-> 0, ram |-> 0, usage |-> global_stats], 200))

\* get_stats from the samples (0 where psutil raised): the counters as they are now
get_stats_done(w) ==
    /\ wpc[w] = "stats_sample"
    /\ \E sample \in Samples :
        Resume(w, "stats_sample", session, static, fresh,
               jsonify([cpu |-> sample[1], ram |-> sample[2], usage |-> global_stats],
                       200), 0, {})
    /\ UNCHANGED <<llm_messages, authed, transcript>>

\* download_report up to psutil.cpu_percent(interval=0.1)
download_report(w) ==
    LET r == [endpoint |-> "download_report"]
    IN IF ~is_admin(session)
       THEN Plain(w, r, text_response("Unauthorized", 401))
       ELSE Block(w, r, global_stats, static, fresh, "report_sample", <<>>, <<>>)

\* download_report from the samples: the report over the counters as they are now
download_report_done(w) ==
    /\ wpc[w] = "report_sample"
    /\ \E sample \in Samples, psutil_raises \in BOOLEAN :
        IF psutil_raises
        THEN Resume(w, "report_sample", session, static, fresh, unhandled("psutil"), 0, {})
        ELSE Resume(w, "report_sample", session, static, fresh,
                    text_response(
                        [cpu |-> sample[1], ram |-> sample[2], usage |-> global_stats,
                         total_ops |-> SumOver(global_stats, DOMAIN global_stats)], 200),
                    0, {})
    /\ UNCHANGED <<llm_messages, authed, transcript>>


\* --------------------------------------------------------------------- chat
SysMsg == [role |-> "system", content |-> "You are a helpful AI office assistant. Be concise."]
UserMsg(msg) == [role |-> "user", content |-> msg]
AssistantMsg(reply) == [role |-> "assistant", content |-> reply]

\* messages = [sys_msg] + history + [{"role": "user", "content": msg}]
chat_messages(history, msg) == <<SysMsg>> \o history \o <<UserMsg(msg)>>

\* if len(history) > 6: history = history[-6:]
truncate_off(history) == history

truncate(history) ==
    IF Len(history) > HISTORY_CAP THEN Last(history, HISTORY_CAP) ELSE history

\* chat up to client.chat.completions.create: the counter, the validation, the
\* history read from the session the request came with
chat(w) ==
    \E msg \in Messages :
        LET r == [endpoint |-> "chat", message |-> msg]
            g2 == increment_stat(global_stats, "chat_msgs")
        IN IF msg = ""
           THEN /\ Serve(w, r, session, g2, static, fresh,
                         jsonify([success |-> FALSE, error |-> "Empty message"], 400),
                         0, {})
                /\ UNCHANGED <<llm_messages, authed, transcript>>
           ELSE IF ~Truthy(API_KEY)
           \* Groq(api_key=None) raises inside the try, before create()
           THEN /\ Serve(w, r, session, g2, static, fresh,
                         jsonify([success |-> FALSE, error |-> "GroqError"], 500), 0, {})
                /\ UNCHANGED <<llm_messages, authed, transcript>>
           ELSE Block(w, r, g2, static, fresh, "chat_create", session, <<>>)

\* chat from the return of create(): the session of this request, with the new
\* history, becomes the cookie; a failed call leaves the cookie alone
chat_reply(w) ==
    /\ wpc[w] = "chat_create"
    /\ \E outcome \in Replies \cup {RAISE} :
        LET msg == wreq[w].message
            history == dict_get(wsession[w], "chat_history", <<>>)
            messages == chat_messages(history, msg)
            history2 == truncate(history \o <<UserMsg(msg), AssistantMsg(outcome)>>)
        IN IF outcome = RAISE
           THEN /\ Resume(w, "chat_create", session, static, fresh,
                          jsonify([success |-> FALSE, error |-> "APIError"], 500), 1, {})
                /\ llm_messages' = messages
                /\ UNCHANGED <<authed, transcript>>
           ELSE /\ Resume(w, "chat_create", dict_set(wsession[w], "chat_history", history2),
                          static, fresh,
                          jsonify([success |-> TRUE, response |-> outcome], 200), 1, {})
                /\ llm_messages' = messages
                /\ transcript' = transcript \o <<UserMsg(msg), AssistantMsg(outcome)>>
                /\ UNCHANGED authed

clear_chat(w) ==
    /\ Serve(w, [endpoint |-> "clear_chat"], dict_pop(session, "chat_history"),
             global_stats, static, fresh, jsonify([success |-> TRUE], 200), 0, {})
    /\ transcript' = <<>>
    /\ UNCHANGED <<llm_messages, authed>>

\* ------------------------------------------------------ pure-text handlers
\* res if res else <fallback>
or_fallback(res, fallback) == IF Truthy(res) THEN res ELSE fallback

\* generate_minutes up to the provider call of the wrapper; without a key the wrapper
\* returns None at once
generate_minutes(w) ==
    LET r == [endpoint |-> "generate_minutes"]
        g2 == increment_stat(global_stats, "text_gen")
    IN IF ~Truthy(API_KEY)
       THEN /\ Serve(w, r, session, g2, static, fresh,
                     jsonify([success |-> TRUE,
                              minutes |-> or_fallback(None, "AI Service Busy")], 200),
                     0, {})
            /\ UNCHANGED <<llm_messages, authed, transcript>>
       ELSE Block(w, r, g2, static, fresh, "minutes_create", <<>>, <<>>)

\* generate_minutes from the return of the wrapper
generate_minutes_reply(w) ==
    /\ wpc[w] = "minutes_create"
    /\ \E outcome \in Completions \cup {RAISE} :
        LET res == get_groq_response(API_KEY, outcome)
        IN Resume(w, "minutes_create", session, static, fresh,
                  jsonify([success |-> TRUE,
                           minutes |-> or_fallback(res, "AI Service Busy")], 200),
                  1, {})
    /\ UNCHANGED <<llm_messages, authed, transcript>>

\* generate_email up to the provider call of the wrapper; without a key the wrapper
\* returns None at once
generate_email(w) ==
    LET r == [endpoint |-> "generate_email"]
        g2 == increment_stat(global_stats, "text_gen")
    IN IF ~Truthy(API_KEY)
       THEN /\ Serve(w, r, session, g2, static, fresh,
                     jsonify([success |-> TRUE,
                              email_content |-> or_fallback(None, "AI Service Busy")], 200),
                     0, {})
            /\ UNCHANGED <<llm_messages, authed, transcript>>
       ELSE Block(w, r, g2, static, fresh, "email_create", <<>>, <<>>)

\* generate_email from the return of the wrapper
generate_email_reply(w) ==
    /\ wpc[w] = "email_create"
    /\ \E outcome \in Completions \cup {RAISE} :
        LET res == get_groq_response(API_KEY, outcome)
        IN Resume(w, "email_create", session, static, fresh,
                  jsonify([success |-> TRUE,
                           email_content |-> or_fallback(res, "AI Service Busy")], 200),
                  1, {})
    /\ UNCHANGED <<llm_messages, authed, transcript>>

\* review_code up to the provider call of the wrapper; without a key the wrapper
\* returns None at once
review_code(w) ==
    LET r == [endpoint |-> "review_code"]
        g2 == increment_stat(global_stats, "code_review")
    IN IF ~Truthy(API_KEY)
       THEN /\ Serve(w, r, session, g2, static, fresh,
                     jsonify([success |-> TRUE,
                              review |-> or_fallback(None, "AI Service Busy")], 200),
                     0, {})
            /\ UNCHANGED <<llm_messages, authed, transcript>>
       ELSE Block(w, r, g2, static, fresh, "review_create", <<>>, <<>>)

\* review_code from the return of the wrapper
review_code_reply(w) ==
    /\ wpc[w] = "review_create"
    /\ \E outcome \in Completions \cup {RAISE} :
        LET res == get_groq_response(API_KEY, outcome)
        IN Resume(w, "review_create", session, static, fresh,
                  jsonify([success |-> TRUE,
                           review |-> or_fallback(res, "AI Service Busy")], 200),
                  1, {})
    /\ UNCHANGED <<llm_messages, authed, transcript>>

\* translate up to the provider call of the wrapper; without a key the wrapper
\* returns None at once
translate(w) ==
    LET r == [endpoint |-> "translate"]
        g2 == increment_stat(global_stats, "text_gen")
    IN IF ~Truthy(API_KEY)
       THEN /\ Serve(w, r, session, g2, static, fresh,
                     jsonify([success |-> TRUE,
                              translation |-> or_fallback(None, "Error")], 200),
                     0, {})
            /\ UNCHANGED <<llm_messages, authed, transcript>>
       ELSE Block(w, r, g2, static, fresh, "translate_create", <<>>, <<>>)

\* translate from the return of the wrapper
translate_reply(w) ==
    /\ wpc[w] = "translate_create"
    /\ \E outcome \in Completions \cup {RAISE} :
        LET res == get_groq_response(API_KEY, outcome)
        IN Resume(w, "translate_create", session, static, fresh,
                  jsonify([success |-> TRUE,
                           translation |-> or_fallback(res, "Error")], 200),
                  1, {})
    /\ UNCHANGED <<llm_messages, authed, transcript>>


\* --------------------------------------------------- artifact-writing handlers
\* with open(path, "w+b") as f: pisa.CreatePDF(..., dest=f)
\* open() creates the file; a failure of the renderer leaves it behind.
PdfOutcomes == {"ok", "open_raises", "render_raises"}
write_pdf(dir, name, now, pdf) ==
    IF pdf = "open_raises" THEN dir ELSE write_file(dir, name, now)

\* generate_quiz up to the provider call; without a key the wrapper returns None
\* at once
generate_quiz(w) ==
    LET r == [endpoint |-> "generate_quiz"]
        g2 == increment_stat(global_stats, "quiz_gen")
    IN IF ~Truthy(API_KEY)
       THEN /\ Serve(w, r, session, g2, static, fresh,
                     jsonify([success |-> FALSE, error |-> "AI Failed"], 200), 0, {})
            /\ UNCHANGED <<llm_messages, authed, transcript>>
       ELSE Block(w, r, g2, static, fresh, "quiz_create", <<>>, <<>>)

\* generate_quiz from the return of the wrapper: the name, the pdf
generate_quiz_pdf(w) ==
    /\ wpc[w] = "quiz_create"
    /\ \E outcome \in Completions \cup {RAISE}, pdf \in PdfOutcomes :
        LET raw_res == get_groq_response(API_KEY, outcome)
            fname == uuid_name("quiz", fresh + 1, "pdf")
        IN IF ~Truthy(raw_res)
           THEN Resume(w, "quiz_create", session, static, fresh,
                       jsonify([success |-> FALSE, error |-> "AI Failed"], 200), 1, {})
           ELSE Resume(w, "quiz_create", session, write_pdf(static, fname, clock, pdf),
                       fresh + 1,
                       IF pdf = "ok"
                       THEN jsonify([success |-> TRUE, file_url |-> fname], 200)
                       ELSE jsonify([success |-> FALSE, error |-> pdf], 500),
                       1, {})
    /\ UNCHANGED <<llm_messages, authed, transcript>>

text_to_pdf(w) ==
    \E pdf \in PdfOutcomes :
        LET fname == uuid_name("doc", fresh + 1, "pdf")
        IN /\ Serve(w, [endpoint |-> "text_to_pdf"], session,
                    increment_stat(global_stats, "pdf_gen"),
                    write_pdf(static, fname, clock, pdf), fresh + 1,
                    IF pdf = "ok"
                    THEN jsonify([success |-> TRUE, file_url |-> fname], 200)
                    ELSE jsonify([success |-> FALSE, error |-> pdf], 500),
                    0, {})
           /\ UNCHANGED <<llm_messages, authed, transcript>>

\* text_to_audio up to tts.save(path): the counter, the validation, the name,
\* gTTS(...)
text_to_audio(w) ==
    \E text \in {"", "hello"}, gtts_raises \in BOOLEAN :
        LET r == [endpoint |-> "text_to_audio", text |-> text]
            g2 == increment_stat(global_stats, "audio_gen")
            fname == uuid_name("speech", fresh + 1, "mp3")
        IN IF text = ""
           THEN /\ Serve(w, r, session, g2, static, fresh,
                         jsonify([success |-> FALSE, error |-> "No text"], 400), 0, {})
                /\ UNCHANGED <<llm_messages, authed, transcript>>
           ELSE IF gtts_raises
           THEN /\ Serve(w, r, session, g2, static, fresh + 1,
                         jsonify([success |-> FALSE, error |-> "gTTSError"], 500), 0, {})
                /\ UNCHANGED <<llm_messages, authed, transcript>>
           ELSE Block(w, r, g2, static, fresh + 1, "tts_save", <<>>, <<fname>>)

\* tts.save(path) opens the destination, then fetches the speech
text_to_audio_open(w) ==
    /\ wpc[w] = "tts_save"
    /\ \E open_raises \in BOOLEAN :
        IF open_raises
        THEN /\ Resume(w, "tts_save", session, static, fresh,
                       jsonify([success |-> FALSE, error |-> "gTTSError"], 500), 0, {})
             /\ UNCHANGED <<llm_messages, authed, transcript>>
        ELSE /\ static' = write_file(static, wnames[w][1], clock)
             /\ wpc' = [wpc EXCEPT ![w] = "tts_fetch"]
             /\ UNCHANGED <<API_KEY, session, global_stats, fresh, req, resp,
                            llm_messages, llm_calls, staged, budget, spawned, served,
                            answered, authed, transcript, wreq, wsession, wnames,
                            incVars, sweepVars>>

\* the fetch returned or raised: a failed fetch leaves the file that was opened
text_to_audio_saved(w) ==
    /\ wpc[w] = "tts_fetch"
    /\ \E fetch_raises \in BOOLEAN :
        LET fname == wnames[w][1]
        IN IF fetch_raises
           THEN Resume(w, "tts_fetch", session, static, fresh,
                       jsonify([success |-> FALSE, error |-> "gTTSError"], 500), 0, {})
           ELSE Resume(w, "tts_fetch", session, write_open(static, fname, clock), fresh,
                       jsonify([success |-> TRUE, file_url |-> fname], 200), 0, {})
    /\ UNCHANGED <<llm_messages, authed, transcript>>

\* convert_file and compress_image: PIL opens the upload, the name is drawn, PIL
\* saves one image
PilOutcomes == {"ok", "open_raises", "save_raises"}

\* fmt = request.form.get('format', 'PNG').upper()
upper(format) ==
    CASE format = None -> "PNG"
      [] format = "jpg" -> "JPG"
      [] format = "JPEG" -> "JPEG"
      [] format = "gif" -> "GIF"
      [] format = "xyz" -> "XYZ"

\* if fmt in ['JPG', 'JPEG']: fmt = 'JPEG'
pil_format(fmt) == IF fmt \in {"JPG", "JPEG"} THEN "JPEG" ELSE fmt

\* fmt.lower(), the extension of the name
lower(fmt) ==
    CASE fmt = "PNG" -> "png"
      [] fmt = "JPEG" -> "jpeg"
      [] fmt = "GIF" -> "gif"
      [] fmt = "XYZ" -> "xyz"

\* the formats img.save knows among these; it raises for any other
SavedAs == {"PNG", "JPEG", "GIF"}

image_handler(w, endpoint, format, field, prefix, fmt, ext) ==
    \E has_file \in BOOLEAN, pil \in PilOutcomes :
        LET r == [endpoint |-> endpoint, format |-> format, has_file |-> has_file]
            g2 == increment_stat(global_stats, field)
            fname == uuid_name(prefix, fresh + 1, ext)
        IN /\ IF ~has_file
              THEN Serve(w, r, session, g2, static, fresh,
                         jsonify([success |-> FALSE, error |-> "No file"], 400), 0, {})
              ELSE IF pil = "open_raises"
              THEN Serve(w, r, session, g2, static, fresh,
                         jsonify([success |-> FALSE, error |-> "PIL"], 500), 0, {})
              ELSE IF pil = "save_raises" \/ fmt \notin SavedAs
              THEN Serve(w, r, session, g2, static, fresh + 1,
                         jsonify([success |-> FALSE, error |-> "PIL"], 500), 0, {})
              ELSE Serve(w, r, session, g2, write_file(static, fname, clock), fresh + 1,
                         jsonify([success |-> TRUE, file_url |-> fname], 200), 0, {})
           /\ UNCHANGED <<llm_messages, authed, transcript>>

convert_file(w) ==
    \E format \in Formats :
        LET fmt == pil_format(upper(format))
        IN image_handler(w, "convert_file", format, "file_conv", "conv", fmt, lower(fmt))

compress_image(w) ==
    image_handler(w, "compress_image", None, "compression", "comp", "JPEG", "jpg")


\* ------------------------------------------------ handlers that stage an upload
\* FileStorage.save(path): copies the upload; when it raises, the destination
\* may not exist or may hold a part of the upload.
SaveOutcomes == {"ok", "raises_no_file", "raises_partial"}
save_upload(dir, name, now, save) ==
    IF save = "raises_no_file" THEN dir ELSE write_file(dir, name, now)

\* if temp_path and os.path.exists(temp_path): os.remove(temp_path)
remove_if_exists(dir, name) == IF exists(dir, name) THEN remove_file(dir, name) ELSE dir

names_of(names) == {names[i] : i \in DOMAIN names}

TemplateOutcomes == {"none"} \cup SaveOutcomes \cup {"load_raises"}
BuildOutcomes == {"ok", "add_slide_raises", "save_raises"}

\* make_ppt up to the provider call: the counter, the template staged in the
\* folder (the except of the template block swallows a failed save or load)
make_ppt(w) ==
    \E template \in TemplateOutcomes :
        LET r == [endpoint |-> "make_ppt", template |-> template]
            g2 == increment_stat(global_stats, "text_gen")
            has_temp == template /= "none"
            temp_path == uuid_name("temp", fresh + 1, "pptx")
        IN IF has_temp
           THEN Block(w, r, g2, save_upload(static, temp_path, clock, template),
                      fresh + 1, "ppt_create", <<>>, <<temp_path>>)
           ELSE Block(w, r, g2, static, fresh, "ppt_create", <<>>, <<>>)

\* make_ppt from the return of the wrapper: the deck, the removal of the template
make_ppt_build(w) ==
    /\ wpc[w] = "ppt_create"
    /\ \E outcome \in Completions \cup {RAISE}, build \in BuildOutcomes :
        LET has_temp == wnames[w] /= <<>>
            temp_path == wnames[w][1]
            stg == names_of(wnames[w])
            ai_text == get_groq_response(API_KEY, outcome)
            filename == uuid_name("presentation", fresh + 1, "pptx")
            calls == groq_calls(API_KEY)
        IN IF ~Truthy(ai_text)
           THEN IF has_temp /\ ~exists(static, temp_path)
                \* os.remove(temp_path) of a file that is not there
                THEN Resume(w, "ppt_create", session, static, fresh,
                            unhandled("FileNotFoundError"), calls, stg)
                ELSE Resume(w, "ppt_create", session,
                            IF has_temp THEN remove_file(static, temp_path) ELSE static,
                            fresh,
                            jsonify([success |-> FALSE, error |-> "AI Failed"], 200),
                            calls, stg)
           ELSE IF build = "add_slide_raises"
           THEN Resume(w, "ppt_create", session, static, fresh, unhandled("add_slide"),
                       calls, stg)
           ELSE IF build = "save_raises"
           THEN Resume(w, "ppt_create", session, static, fresh + 1,
                       unhandled("prs.save"), calls, stg)
           ELSE Resume(w, "ppt_create", session,
                       LET dir2 == write_file(static, filename, clock)
                       IN IF has_temp THEN remove_if_exists(dir2, temp_path) ELSE dir2,
                       fresh + 1,
                       jsonify([success |-> TRUE, file_url |-> filename], 200),
                       calls, stg)
    /\ UNCHANGED <<llm_messages, authed, transcript>>

\* audio_to_text up to the recognizer: the counter, the upload staged
audio_to_text(w) ==
    \E has_file \in BOOLEAN, save \in SaveOutcomes :
        LET r == [endpoint |-> "audio_to_text", has_file |-> has_file]
            g2 == increment_stat(global_stats, "transcribe")
            path == uuid_name("temp", fresh + 1, "wav")
            dir1 == save_upload(static, path, clock, save)
        IN IF ~has_file
           THEN /\ Serve(w, r, session, g2, static, fresh,
                         jsonify([success |-> FALSE, error |-> "No file"], 400), 0, {})
                /\ UNCHANGED <<llm_messages, authed, transcript>>
           ELSE IF save /= "ok"
           \* file.save(path) is outside the try
           THEN /\ Serve(w, r, session, g2, dir1, fresh + 1, unhandled("file.save"), 0,
                         {path})
                /\ UNCHANGED <<llm_messages, authed, transcript>>
           ELSE Block(w, r, g2, dir1, fresh + 1, "stt_recognize", <<>>, <<path>>)

\* audio_to_text from the return of the recognizer: os.remove(path) is inside
\* the try, the except removes the file if it is there
audio_to_text_done(w) ==
    /\ wpc[w] = "stt_recognize"
    /\ \E stt_raises \in BOOLEAN :
        LET path == wnames[w][1]
            stg == names_of(wnames[w])
        IN IF stt_raises
           THEN Resume(w, "stt_recognize", session, remove_if_exists(static, path), fresh,
                       jsonify([success |-> FALSE, error |-> "UnknownValueError"], 500),
                       0, stg)
           ELSE IF ~exists(static, path)
           THEN Resume(w, "stt_recognize", session, static, fresh,
                       jsonify([success |-> FALSE, error |-> "FileNotFoundError"], 500),
                       0, stg)
           ELSE Resume(w, "stt_recognize", session, remove_file(static, path), fresh,
                       jsonify([success |-> TRUE, text |-> "transcript"], 200),
                       0, stg)
    /\ UNCHANGED <<llm_messages, authed, transcript>>

\* video_to_audio up to the extraction: the counter, the upload staged, both names
video_to_audio(w) ==
    \E has_file \in BOOLEAN, save \in SaveOutcomes :
        LET r == [endpoint |-> "video_to_audio", has_file |-> has_file]
            g2 == increment_stat(global_stats, "vid_audio")
            vid_path == uuid_name("temp_vid", fresh + 1, "mp4")
            audio_name == uuid_name("extracted", fresh + 2, "mp3")
            dir1 == save_upload(static, vid_path, clock, save)
        IN IF ~has_file
           THEN /\ Serve(w, r, session, g2, static, fresh,
                         jsonify([success |-> FALSE, error |-> "No file"], 400), 0, {})
                /\ UNCHANGED <<llm_messages, authed, transcript>>
           ELSE IF save /= "ok"
           THEN /\ Serve(w, r, session, g2, dir1, fresh + 1, unhandled("file.save"), 0,
                         {vid_path})
                /\ UNCHANGED <<llm_messages, authed, transcript>>
           ELSE Block(w, r, g2, dir1, fresh + 2, "clip_write", <<>>,
                      <<vid_path, audio_name>>)

\* video_to_audio from the end of the extraction; finally: the staged video is
\* removed on both paths
video_to_audio_done(w) ==
    /\ wpc[w] = "clip_write"
    /\ \E clip_raises \in BOOLEAN :
        LET vid_path == wnames[w][1]
            audio_name == wnames[w][2]
        IN IF clip_raises
           THEN Resume(w, "clip_write", session, remove_if_exists(static, vid_path), fresh,
                       jsonify([success |-> FALSE, error |-> "OSError"], 500),
                       0, {vid_path})
           ELSE Resume(w, "clip_write", session,
                       remove_if_exists(write_file(static, audio_name, clock), vid_path),
                       fresh,
                       jsonify([success |-> TRUE, file_url |-> audio_name], 200),
                       0, {vid_path})
    /\ UNCHANGED <<llm_messages, authed, transcript>>

\* ------------------------------------------------- requests one after another
ZeroStats == [k \in StatKeys |-> 0]

InitServer ==
    /\ session = <<>>
    /\ global_stats = ZeroStats
    /\ fresh = 0
    /\ req = NoRequest
    /\ resp = [body |-> "", status |-> 0, kind |-> "none"]
    /\ llm_messages = <<>>
    /\ llm_calls = 0
    /\ staged = {}
    /\ served = [e \in Endpoints |-> 0]
    /\ answered = 0
    /\ authed = FALSE
    /\ transcript = <<>>
    /\ wpc = [w \in 1..MaxWorkers |-> "idle"]
    /\ wreq = [w \in 1..MaxWorkers |-> NoRequest]
    /\ wsession = [w \in 1..MaxWorkers |-> <<>>]
    /\ wnames = [w \in 1..MaxWorkers |-> <<>>]
    /\ tpc = [t \in 1..MaxThreads |-> "idle"]
    /\ tfield = [t \in 1..MaxThreads |-> None]
    /\ tmp = [t \in 1..MaxThreads |-> 0]
    /\ incs = [k \in StatKeys |-> 0]
    /\ started = 0
    /\ clock = Now0
    /\ spc = [s \in 1..MaxSweeps |-> "idle"]
    /\ snow = [s \in 1..MaxSweeps |-> 0]
    /\ slisting = [s \in 1..MaxSweeps |-> <<>>]
    /\ sidx = [s \in 1..MaxSweeps |-> 0]
    /\ smtime = [s \in 1..MaxSweeps |-> 0]
    /\ initial = <<>>
    /\ deleted = {}
    /\ writes = 0
    /\ ticks = 0

\* The process after start-up: an empty folder, one fresh session, no request yet.
Init ==
    /\ InitServer
    /\ API_KEY \in {None, "gsk_key"}
    /\ static = <<>>
    /\ spawned = 0
    /\ budget = MaxReq

\* the views, and the continuations of the views that block, in request thread w
views(w) ==
    \/ index(w)
    \/ health(w)
    \/ static_request(w)
    \/ login(w)
    \/ logout(w)
    \/ check_auth(w)
    \/ get_stats(w)
    \/ get_stats_done(w)
    \/ download_report(w)
    \/ download_report_done(w)
    \/ chat(w)
    \/ chat_reply(w)
    \/ clear_chat(w)
    \/ generate_minutes(w)
    \/ generate_minutes_reply(w)
    \/ generate_email(w)
    \/ generate_email_reply(w)
    \/ review_code(w)
    \/ review_code_reply(w)
    \/ translate(w)
    \/ translate_reply(w)
    \/ generate_quiz(w)
    \/ generate_quiz_pdf(w)
    \/ make_ppt(w)
    \/ make_ppt_build(w)
    \/ text_to_audio(w)
    \/ text_to_audio_open(w)
    \/ text_to_audio_saved(w)
    \/ audio_to_text(w)
    \/ audio_to_text_done(w)
    \/ text_to_pdf(w)
    \/ video_to_audio(w)
    \/ video_to_audio_done(w)
    \/ convert_file(w)
    \/ compress_image(w)

\* one request thread: a request arrives when the one before it was answered
Next == views(1)

Spec == Init /\ [][Next]_vars


\* ------------------------------------------ the auth gate and the admin views
InitAuth ==
    /\ InitServer
    /\ API_KEY \in {None, "gsk_key"}
    /\ static = <<>>
    /\ spawned = 0
    /\ budget = MaxAuthReq

NextAuth ==
    \/ login(1)
    \/ logout(1)
    \/ check_auth(1)
    \/ get_stats(1)
    \/ get_stats_done(1)
    \/ download_report(1)
    \/ download_report_done(1)
    \/ review_code(1)
    \/ review_code_reply(1)

SpecAuth == InitAuth /\ [][NextAuth]_vars

\* ------------------------------------------------------- one chat session
InitChat ==
    /\ InitServer
    /\ API_KEY \in {None, "gsk_key"}
    /\ static = <<>>
    /\ spawned = 0
    /\ budget = MaxChats

NextChat ==
    \/ chat(1)
    \/ chat_reply(1)
    \/ clear_chat(1)

SpecChat == InitChat /\ [][NextChat]_vars


\* ------------------------------- increment_stat in requests served concurrently
\* global_stats[field] += 1 is a read of the counter and a later write of the
\* value read plus one; other threads run between the two.
IncFields == {"chat_msgs", "text_gen", "unknown"}

IncEnter(t) ==
    /\ tpc[t] = "idle"
    /\ started < MaxIncr
    /\ \E field \in IncFields :
        /\ tfield' = [tfield EXCEPT ![t] = field]
        \* if field in global_stats
        /\ tpc' = [tpc EXCEPT ![t] = IF field \in DOMAIN global_stats
                                     THEN "read" ELSE "idle"]
    /\ started' = started + 1
    /\ UNCHANGED <<tmp, incs, reqVars, sweepVars>>

IncRead(t) ==
    /\ tpc[t] = "read"
    /\ tmp' = [tmp EXCEPT ![t] = global_stats[tfield[t]]]
    /\ tpc' = [tpc EXCEPT ![t] = "write"]
    /\ UNCHANGED <<tfield, incs, started, reqVars, sweepVars>>

IncWrite(t) ==
    /\ tpc[t] = "write"
    /\ global_stats' = [global_stats EXCEPT ![tfield[t]] = tmp[t] + 1]
    /\ incs' = [incs EXCEPT ![tfield[t]] = @ + 1]
    /\ tpc' = [tpc EXCEPT ![t] = "idle"]
    /\ UNCHANGED <<tfield, tmp, started, sweepVars, API_KEY, session, static, fresh,
                   req, resp, llm_messages, llm_calls, staged, budget, spawned, served,
                   authed, transcript, answered, workerVars>>

InitInc ==
    /\ InitServer
    /\ API_KEY = "gsk_key"
    /\ static = <<>>
    /\ spawned = 0
    /\ budget = 0

NextInc ==
    \E t \in 1..MaxThreads :
        \/ IncEnter(t)
        \/ IncRead(t)
        \/ IncWrite(t)

SpecInc == InitInc /\ [][NextInc]_vars

\* ---------------------------------------------------------- the cleanup sweep
\* now - os.path.getmtime(fpath) > 1800
is_stale_inclusive(now, mtime) == now - mtime >= RETENTION

is_stale(now, mtime) == now - mtime > RETENTION

\* os.path.isfile(fpath): false for a directory and for a name that is gone
isfile(dir, name) == exists(dir, name) /\ dir[name].kind = "file"

\* os.listdir gives the names in arbitrary order
Listings(dir) ==
    {l \in [1..Cardinality(DOMAIN dir) -> DOMAIN dir] :
        \A i, j \in DOMAIN l : i /= j => l[i] /= l[j]}

\* now = time.time()
SweepNow(s) ==
    /\ spc[s] = "idle"
    /\ s <= spawned
    /\ snow' = [snow EXCEPT ![s] = clock]
    /\ spc' = [spc EXCEPT ![s] = "listdir"]
    /\ initial' = IF \A o \in 1..MaxSweeps : spc[o] = "idle" THEN static ELSE initial
    /\ UNCHANGED <<clock, slisting, sidx, smtime, deleted, writes, ticks, reqVars,
                   incVars>>

\* for f in os.listdir(STATIC_FOLDER)
SweepListdir(s) ==
    /\ spc[s] = "listdir"
    /\ \E l \in Listings(static) : slisting' = [slisting EXCEPT ![s] = l]
    /\ sidx' = [sidx EXCEPT ![s] = 1]
    /\ spc' = [spc EXCEPT ![s] = "isfile"]
    /\ UNCHANGED <<clock, snow, smtime, initial, deleted, writes, ticks, reqVars, incVars>>

\* the loop head, and os.path.isfile(fpath) for the next name of the listing
SweepIsfile(s) ==
    /\ spc[s] = "isfile"
    /\ IF sidx[s] > Len(slisting[s])
       THEN /\ spc' = [spc EXCEPT ![s] = "done"]
            /\ sidx' = sidx
       ELSE IF isfile(static, slisting[s][sidx[s]])
       THEN /\ spc' = [spc EXCEPT ![s] = "getmtime"]
            /\ sidx' = sidx
       ELSE /\ spc' = spc
            /\ sidx' = [sidx EXCEPT ![s] = @ + 1]
    /\ UNCHANGED <<clock, snow, slisting, smtime, initial, deleted, writes, ticks,
                   reqVars, incVars>>

\* os.path.getmtime(fpath) raises for a name that is gone: the outer except
\* ends the pass.
SweepGetmtime(s) ==
    /\ spc[s] = "getmtime"
    /\ LET f == slisting[s][sidx[s]]
       IN IF ~exists(static, f)
          THEN /\ spc' = [spc EXCEPT ![s] = "done"]
               /\ UNCHANGED <<sidx, smtime>>
          ELSE IF is_stale(snow[s], static[f].mtime)
          THEN /\ spc' = [spc EXCEPT ![s] = "remove"]
               /\ smtime' = [smtime EXCEPT ![s] = static[f].mtime]
               /\ sidx' = sidx
          ELSE /\ spc' = [spc EXCEPT ![s] = "isfile"]
               /\ smtime' = [smtime EXCEPT ![s] = static[f].mtime]
               /\ sidx' = [sidx EXCEPT ![s] = @ + 1]
    /\ UNCHANGED <<clock, snow, slisting, initial, deleted, writes, ticks, reqVars,
                   incVars>>

\* try: os.remove(fpath) / except: pass
SweepRemove(s) ==
    /\ spc[s] = "remove"
    /\ LET f == slisting[s][sidx[s]]
       IN IF exists(static, f) /\ ~static[f].locked
          THEN /\ static' = remove_file(static, f)
               /\ deleted' = deleted \cup {f}
          ELSE UNCHANGED <<static, deleted>>
    /\ spc' = [spc EXCEPT ![s] = "isfile"]
    /\ sidx' = [sidx EXCEPT ![s] = @ + 1]
    /\ UNCHANGED <<clock, snow, slisting, smtime, initial, writes, ticks, incVars,
                   API_KEY, session, global_stats, fresh, req, resp, llm_messages,
                   llm_calls, staged, budget, spawned, served, authed, transcript,
                   answered, workerVars>>

cleanup_old_files(s) ==
    \/ SweepNow(s)
    \/ SweepListdir(s)
    \/ SweepIsfile(s)
    \/ SweepGetmtime(s)
    \/ SweepRemove(s)

\* a handler writes a new artifact while sweeps run
WriteArtifact ==
    /\ writes < MaxWrites
    /\ writes' = writes + 1
    /\ static' = write_file(static, uuid_name("doc", writes + 1, "pdf"), clock)
    /\ UNCHANGED <<clock, spc, snow, slisting, sidx, smtime, initial, deleted, ticks,
                   incVars, API_KEY, session, global_stats, fresh, req, resp,
                   llm_messages, llm_calls, staged, budget, spawned, served, authed,
                   transcript, answered, workerVars>>

Tick ==
    /\ ticks < MaxTicks
    /\ ticks' = ticks + 1
    /\ clock' = clock + 1
    /\ UNCHANGED <<spc, snow, slisting, sidx, smtime, initial, deleted, writes, reqVars,
                   incVars>>

\* a request that is not a static one arrives: before_request_cleanup starts a thread
Request ==
    /\ spawned < MaxSweeps
    /\ spawned' = spawned + 1
    /\ UNCHANGED <<sweepVars, incVars, API_KEY, session, global_stats, static, fresh,
                   req, resp, llm_messages, llm_calls, staged, budget, served, authed,
                   transcript, answered, workerVars>>

\* What the folder may hold when a sweep begins: regular files older than, exactly
\* at and inside the retention window, files that cannot be removed, directories.
EntryKinds ==
    {[kind |-> "file", mtime |-> Now0 - RETENTION - 1, locked |-> FALSE],
     [kind |-> "file", mtime |-> Now0 - RETENTION - 1, locked |-> TRUE],
     [kind |-> "file", mtime |-> Now0 - RETENTION, locked |-> FALSE],
     [kind |-> "file", mtime |-> Now0, locked |-> FALSE],
     [kind |-> "dir", mtime |-> Now0 - RETENTION - 1, locked |-> FALSE]}

Folders ==
    UNION {[{uuid_name("old", i, "bin") : i \in 1..n} -> EntryKinds] : n \in 0..NFiles}

\* one pass alone: the thread of one request, handlers that only write
InitSweep ==
    /\ InitServer
    /\ API_KEY = "gsk_key"
    /\ static \in Folders
    /\ spawned = 1
    /\ budget = 0

NextSweep ==
    \/ cleanup_old_files(1)
    \/ WriteArtifact
    \/ Tick

SpecSweep == InitSweep /\ [][NextSweep]_vars

\* the threads of several requests
InitSweeps ==
    /\ InitServer
    /\ API_KEY = "gsk_key"
    /\ static \in Folders
    /\ spawned = 0
    /\ budget = 0

NextSweeps ==
    \/ Request
    \/ \E s \in 1..MaxSweeps : cleanup_old_files(s)
    \/ WriteArtifact
    \/ Tick

SpecSweeps == InitSweeps /\ [][NextSweeps]_vars


\* ------------------------------ request threads and cleanup threads together
\* a blocking call of some view lasts longer than the retention period
Stall ==
    /\ ticks < MaxTicks
    /\ \E w \in 1..MaxWorkers : wpc[w] /= "idle"
    /\ ticks' = ticks + 1
    /\ clock' = clock + RETENTION + 1
    /\ UNCHANGED <<spc, snow, slisting, sidx, smtime, initial, deleted, writes, reqVars,
                   incVars>>

InitServe ==
    /\ InitServer
    /\ API_KEY = "gsk_key"
    /\ static = <<>>
    /\ spawned = 0
    /\ budget = MaxServe

\* the server is threaded: a request is served while another one blocks, and
\* cleanup threads of the requests run beside them
NextServe ==
    \/ \E w \in 1..MaxWorkers : views(w)
    \/ \E s \in 1..MaxServeSweeps : cleanup_old_files(s)
    \/ Stall

SpecServe == InitServe /\ [][NextServe]_vars


\* ===================================================================== claims
history_of(s) == dict_get(s, "chat_history", <<>>)
\* a request arrives; a response is sent
RequestStep == budget' = budget - 1
AnswerStep == answered' = answered + 1

\* ---- C1 ------------------------------------------------------------------
C1_LoginStep ==
    (AnswerStep /\ req'.endpoint = "login") =>
        IF req'.data /= "object"
        THEN session' = session
        ELSE IF req'.username = ADMIN_USER /\ req'.password = ADMIN_PASS
        THEN resp'.status = 200 /\ resp'.body.success /\ is_admin(session')
        ELSE resp'.status = 401 /\ ~resp'.body.success /\ session' = session

C1_OtherSteps ==
    /\ (AnswerStep /\ req'.endpoint = "logout") => ~is_admin(session')
    /\ (AnswerStep /\ req'.endpoint = "check_auth") =>
           /\ resp'.body.is_admin = is_admin(session)
           /\ session' = session

\* C1: within one session check-auth reports false before any login; a login
\* whose username and password both equal the admin credentials answers 200
\* with success and sets is_admin; a login with any other username or password
\* answers 401 and leaves the session as it was (so does, with another answer,
\* a login whose body carries no username or password at all); logout leaves
\* is_admin false; so is_admin (and what check-auth reports) is true exactly
\* when the last successful login was not followed by a logout.
C1_AuthGate ==
    /\ [](served["login"] = 0 => ~is_admin(session))
    /\ [](is_admin(session) = authed)
    /\ [](req.endpoint = "check_auth" => resp.body.is_admin = authed)
    /\ [][C1_LoginStep /\ C1_OtherSteps]_vars

C1_Witness ==
    /\ req.endpoint = "check_auth"
    /\ resp.body.is_admin = TRUE
    /\ served["logout"] >= 1

\* ---- C2 ------------------------------------------------------------------
\* C2: a session whose is_admin flag is false gets from GET /api/stats a 200
\* answer with cpu = 0, ram = 0 and a usage payload that shows none of the
\* process-wide counts, and from GET /download-report a 401 without a report.
C2_StatsAdminOnly ==
    /\ (req.endpoint = "get_stats" /\ ~is_admin(session)) =>
           /\ resp.status = 200
           /\ resp.body.cpu = 0
           /\ resp.body.ram = 0
           /\ resp.body.usage = ZeroStats
    /\ (req.endpoint = "download_report" /\ ~is_admin(session)) =>
           /\ resp.status = 401
           /\ resp.body = "Unauthorized"

\* ---- C3 ------------------------------------------------------------------
\* C3: with requests served concurrently and the counter update a separate read
\* and later write, every usage counter is >= 0 in every reachable state and no
\* step lowers a counter.
C3_CountersMonotone ==
    /\ [](\A k \in StatKeys : global_stats[k] >= 0)
    /\ [][\A k \in StatKeys : global_stats'[k] >= global_stats[k]]_vars

\* ---- C4 ------------------------------------------------------------------
Handlers ==
    {"chat", "generate_minutes", "generate_email", "review_code", "translate",
     "generate_quiz", "make_ppt", "text_to_audio", "audio_to_text", "text_to_pdf",
     "video_to_audio", "convert_file", "compress_image"}

StatOf(endpoint) ==
    CASE endpoint = "chat" -> "chat_msgs"
      [] endpoint \in {"generate_minutes", "generate_email", "translate", "make_ppt"}
            -> "text_gen"
      [] endpoint = "review_code" -> "code_review"
      [] endpoint = "generate_quiz" -> "quiz_gen"
      [] endpoint = "text_to_audio" -> "audio_gen"
      [] endpoint = "audio_to_text" -> "transcribe"
      [] endpoint = "text_to_pdf" -> "pdf_gen"
      [] endpoint = "video_to_audio" -> "vid_audio"
      [] endpoint = "convert_file" -> "file_conv"
      [] endpoint = "compress_image" -> "compression"

C4_Step ==
    /\ \A e \in Endpoints :
           (RequestStep /\ served'[e] = served[e] + 1) =>
               IF e \in Handlers
               THEN global_stats' = [global_stats EXCEPT ![StatOf(e)] = @ + 1]
               ELSE global_stats' = global_stats
    /\ ~RequestStep => global_stats' = global_stats

\* C4: served one after another, every request to a generation handler adds
\* exactly 1 to the handler's category at entry and changes no other counter,
\* the rest of the handler changes none whatever its outcome, and no other
\* request changes a counter; so each counter equals the number of requests that
\* arrived in its category. increment_stat with an
\* unrecognized category returns the counters unchanged.
C4_CountsRequests ==
    /\ [](\A k \in StatKeys :
            global_stats[k] =
                SumOver(served, {e \in Handlers : StatOf(e) = k}))
    /\ [](\A f \in {"unknown", "", "TEXT_GEN"} :
            increment_stat(global_stats, f) = global_stats)
    /\ [][C4_Step]_vars

C4_Witness ==
    /\ global_stats["text_gen"] = 2
    /\ req.endpoint = "make_ppt"
    /\ resp.kind = "unhandled"

\* ---- C5 ------------------------------------------------------------------
LastUpTo(s, n) == IF Len(s) <= n THEN s ELSE SubSeq(s, Len(s) - n + 1, Len(s))

C5_ChatStep ==
    (AnswerStep /\ req'.endpoint = "chat") =>
        /\ resp'.status = 200 =>
               history_of(session') =
                   LastUpTo(history_of(session)
                            \o <<[role |-> "user", content |-> req'.message],
                                 [role |-> "assistant", content |-> resp'.body.response]>>,
                            6)
        /\ resp'.status /= 200 => session' = session
        /\ llm_calls' = 1 =>
               /\ llm_messages' = <<SysMsg>> \o history_of(session)
                                  \o <<[role |-> "user", content |-> req'.message]>>
               /\ Len(llm_messages') <= 8

\* C5: after any sequence of chat and clear-chat requests the stored history has
\* at most 6 entries; a successful chat stores the last 6 entries of (stored
\* history, new user turn, reply), a failed one stores nothing, so the history is
\* always the last 6 turns exchanged since the last clear; the completion call
\* receives the system prompt, the stored entries (at most 6) and the new turn.
C5_HistoryCap ==
    /\ [](Len(history_of(session)) <= 6)
    /\ [](history_of(session) = LastUpTo(transcript, 6))
    /\ [][C5_ChatStep]_vars

C5_Witness ==
    /\ Len(transcript) = 8
    /\ Len(history_of(session)) = 6
    /\ req.endpoint = "chat"

\* ---- C6 ------------------------------------------------------------------
PureText == {"generate_minutes", "generate_email", "review_code", "translate"}

TextField(endpoint) ==
    CASE endpoint = "generate_minutes" -> resp.body.minutes
      [] endpoint = "generate_email" -> resp.body.email_content
      [] endpoint = "review_code" -> resp.body.review
      [] endpoint = "translate" -> resp.body.translation

\* C6: a pure-text endpoint always answers 200 with success = true after at most
\* one provider call, and when the wrapper returned null (no key, a failed call)
\* its text field is the fallback "AI Service Busy".
C6_FallbackText ==
    req.endpoint \in PureText =>
        /\ resp.status = 200
        /\ resp.kind = "json"
        /\ resp.body.success
        /\ llm_calls <= 1
        /\ ~Truthy(API_KEY) => TextField(req.endpoint) = "AI Service Busy"
        /\ TextField(req.endpoint) \in
               {c \in Completions : c /= ""} \cup {"AI Service Busy"}

\* ---- C7 ------------------------------------------------------------------
\* C7: in every handler other than the four pure-text ones a failure is caught
\* in the handler and answered as json {success: false, error} with status 500,
\* a missing input with status 400: no answer with success = false has status
\* 200, and none is left to the framework.
C7_FailuresAre500 ==
    req.endpoint \in Handlers \ PureText =>
        /\ resp.kind = "json"
        /\ ~resp.body.success => resp.status \in {400, 500}

\* ---- C8 ------------------------------------------------------------------
\* C8: when make-ppt, audio-to-text or video-to-audio has answered, after a
\* staged upload was written, the staged file of the request is not in the folder
\* any more, by any outcome; and removing it does not end the request with an
\* unhandled error.
C8_StagedUploadRemoved ==
    (resp.kind = "unhandled" => resp.body /= "file.save") =>
        /\ \A n \in staged : ~exists(static, n)
        /\ resp.kind = "unhandled" => resp.body /= "FileNotFoundError"


\* ---- C9 ------------------------------------------------------------------
\* what one pass has to remove, of the folder as it was when 'now' was sampled
Removable(entry, now) ==
    /\ entry.kind = "file"
    /\ now - entry.mtime > 1800
    /\ ~entry.locked

\* C9: one pass run alone, 'now' sampled once at its start: when it has ended,
\* a name that was in the folder is gone exactly if it was a regular file more
\* than 1800 seconds older than that 'now' whose deletion did not fail; every
\* other entry is there unchanged, a file written since included; the pass has
\* gone through its whole listing, failed deletions notwithstanding; and at no
\* time has it removed anything else.
C9_OnePass ==
    /\ \A f \in deleted : f \in DOMAIN initial /\ Removable(initial[f], snow[1])
    /\ \A n \in 1..writes : exists(static, uuid_name("doc", n, "pdf"))
    /\ spc[1] = "done" =>
           /\ \A f \in DOMAIN initial :
                  exists(static, f) <=> ~Removable(initial[f], snow[1])
           /\ \A f \in DOMAIN initial \cap DOMAIN static : static[f] = initial[f]
           /\ sidx[1] = Len(slisting[1]) + 1

C9_Witness ==
    /\ spc[1] = "done"
    /\ deleted /= {}
    /\ \E f \in DOMAIN static : static[f].mtime = snow[1] - 1800
    /\ writes = 1
    /\ clock > snow[1]

\* ---- C10 -----------------------------------------------------------------
SweepsOver == spawned >= 1 /\ \A s \in 1..spawned : spc[s] = "done"

\* C10: sweeps interleaved step by step with one another and with writing
\* handlers: a sweep that has ended left no later name of its listing unvisited
\* (a file another sweep removed is skipped and the pass goes on), and once all sweeps
\* have ended every removable file that was older than 1800 seconds when they
\* started is gone and no file younger than that has been removed.
C10_SweepsContinue ==
    /\ \A s \in 1..MaxSweeps :
           spc[s] = "done" => sidx[s] >= Len(slisting[s])
    /\ \A f \in deleted :
           \E s \in 1..MaxSweeps : Removable(initial[f], snow[s])
    /\ SweepsOver =>
           \A f \in DOMAIN initial :
               (\A s \in 1..spawned : Removable(initial[f], snow[s]))
                   => ~exists(static, f)

====
